---- MODULE Spec2Model ----
(***************************************************************************)
(* Model of eisfit/circuits.py: the model wrappers Randles, DefineCircuit  *)
(* and FlexiCircuit built on BaseCircuit.  One instance is followed from   *)
(* its construction through any sequence of fit and predict calls.         *)
(*                                                                         *)
(* Python values are encoded as follows.                                   *)
(*   - an attribute or optional argument is a record [st, v]: st = "unset" *)
(*     (the attribute does not exist), "none" (it is None) or "val" (v is  *)
(*     the value);                                                         *)
(*   - a number is a record [t, x]: t its Python type, x its value in      *)
(*     tenths (x = 1 is 0.1), a non-number has t = "str";                  *)
(*   - a circuit description is the sequence of its characters;            *)
(*   - a numpy array of frequencies is the sequence of the types of its    *)
(*     elements (an object array may mix types), impedances are known by   *)
(*     their length only.                                                  *)
(***************************************************************************)
EXTENDS Integers, Sequences, FiniteSets

VARIABLES
    kind,           \* class of the instance: "none", "Randles", "DefineCircuit", "FlexiCircuit"
    parameters_,    \* self.parameters_
    initial_guess,  \* self.initial_guess
    circuit,        \* self.circuit
    algorithm,      \* self.algorithm
    bounds,         \* self.bounds
    generations,    \* self.generations  (FlexiCircuit)
    popsize,        \* self.popsize      (FlexiCircuit)
    max_elements,   \* self.max_elements (FlexiCircuit)
    population,     \* self.population   (FlexiCircuit.fit)
    pc,             \* position inside FlexiCircuit.fit: "idle", "loop", "cand"
    gen,            \* FlexiCircuit.fit: loop variable i, generations completed so far
    idx,            \* FlexiCircuit.fit: candidates of self.population already handled
    scores,         \* FlexiCircuit.fit: the local variable scores
    last,           \* the latest call (completed, or the search under way) and its outcome
    lastGood,       \* history: parameters returned by the latest successful circuit_fit
    genCalls,       \* history: arguments of the make_population calls of the current search
    pops,           \* history: populations returned by make_population in the current search
    fitLog,         \* history: leastsq calls of the current search
    collected       \* history: every (score, candidate) pair appended in the current search

vars == << kind, parameters_, initial_guess, circuit, algorithm, bounds,
           generations, popsize, max_elements, population, pc, gen, idx,
           scores, last, lastGood, genCalls, pops, fitLog, collected >>

attrs == << kind, parameters_, initial_guess, circuit, algorithm, bounds,
            generations, popsize, max_elements, population >>

flexiLocals == << pc, gen, idx, scores >>

flexiHistory == << genCalls, pops, fitLog, collected >>

----
\* Bounds of the model.

\* longest initial guess handed to a constructor
MaxGuessLen == 7

\* longest frequency / impedance array handed to fit and predict
MaxLen == 2

\* largest generations and popsize of a FlexiCircuit
MaxGen == 2

MaxPop == 2

\* largest max_elements of a FlexiCircuit
MaxElems == 2

----
\* Encoding of Python values.

Unset == [st |-> "unset", v |-> <<>>]

None == [st |-> "none", v |-> <<>>]

Some(x) == [st |-> "val", v |-> x]

Num(t, x) == [t |-> t, x |-> x]

\* isinstance(i, (float, int, np.int32, np.float64))
NumberTypes == {"float", "int", "int32", "float64"}

IsNumber(e) == e.t \in NumberTypes

\* types of the elements a frequency array can hold
FreqTypes == {"float64", "str"}

\* what the claims call a real number
IsRealType(t) == t \in {"float", "int", "int32", "int64", "float32", "float64"}


----
\* Circuit descriptions.

\* 'R_0-p(R_1,E_1/E_2)-W_1/W_2'
RandlesCPECircuit ==
    << "R", "_", "0", "-", "p", "(", "R", "_", "1", ",", "E", "_", "1", "/", "E", "_", "2", ")", "-", "W", "_", "1", "/", "W", "_", "2" >>

\* 'R_0-p(R_1,C_1)-W_1/W_2'
RandlesCircuit ==
    << "R", "_", "0", "-", "p", "(", "R", "_", "1", ",", "C", "_", "1", ")", "-", "W", "_", "1", "/", "W", "_", "2" >>

\* 'R_0-R_1'
SeriesCircuit == << "R", "_", "0", "-", "R", "_", "1" >>

\* 'R_0'
ResistorCircuit == << "R", "_", "0" >>

\* 'R_0-C_1'
SeriesRCCircuit == << "R", "_", "0", "-", "C", "_", "1" >>

\* 'p(R_0': an unmatched parenthesis
UnbalancedCircuit == << "p", "(", "R", "_", "0" >>

\* element type codes and their parameter arity
ElementTypes == {"R", "C", "E", "W"}

Arity(t) == IF t \in {"E", "W"} THEN 2 ELSE 1

\* letters a description may hold besides the element types: the parallel combinator
Combinators == {"p"}

Punctuation == {"_", "-", "(", ")", ",", "/", "0", "1", "2"}

\* positions where an element starts: a type letter that does not continue a
\* multi-parameter element (W_1/W_2 is one element)
ElementStarts(c) ==
    {k \in 1..Len(c) : c[k] \in ElementTypes /\ (k = 1 \/ c[k-1] # "/")}

RECURSIVE TokensFrom(_, _)
\* number of '/'-joined tokens of the element starting at k
TokensFrom(c, k) ==
    IF k + 4 <= Len(c) /\ c[k+3] = "/" /\ c[k+4] = c[k]
    THEN 1 + TokensFrom(c, k + 4)
    ELSE 1

RECURSIVE Depth(_, _)
\* parenthesis depth after the first k characters, -1 once a ')' has no match
Depth(c, k) ==
    IF k = 0 THEN 0
    ELSE LET d == Depth(c, k - 1)
         IN  IF d < 0 THEN -1
             ELSE IF c[k] = "(" THEN d + 1
             ELSE IF c[k] = ")" THEN d - 1
             ELSE d

Malformed(c) ==
    \/ Depth(c, Len(c)) # 0
    \/ \E k \in 1..Len(c) : c[k] \notin ElementTypes \cup Combinators \cup Punctuation
    \/ \E k \in ElementStarts(c) : TokensFrom(c, k) # Arity(c[k])

RECURSIVE SumArity(_, _)
SumArity(c, S) ==
    IF S = {} THEN 0
    ELSE LET k == CHOOSE x \in S : TRUE
         IN  Arity(c[k]) + SumArity(c, S \ {k})

\* calculateCircuitLength: the total parameter count of a well-formed description
calculateCircuitLength(c) == SumArity(c, ElementStarts(c))

ElementCount(c) == Cardinality(ElementStarts(c))

----
\* Inputs.

MkGuess(len, bad) ==
    [k \in 1..len |-> IF k = bad THEN Num("str", 0) ELSE Num("float", 10)]

\* initial_guess arguments: None, or a list with at most one entry that is not a number
GuessArgs ==
    {None} \cup {Some(MkGuess(len, bad)) : len \in 0..MaxGuessLen, bad \in 0..MaxGuessLen}

\* bounds arguments: None, or one (lower, upper) pair list
BoundsArgs == {None, Some(<< <<0, 100>> >>)}

\* circuit arguments of DefineCircuit
CircuitArgs == {None, Some(RandlesCircuit), Some(SeriesCircuit), Some(UnbalancedCircuit)}

RECURSIVE SeqsUpTo(_, _)
\* the sequences over S of length at most n
SeqsUpTo(S, n) ==
    IF n = 0 THEN {<<>>}
    ELSE LET R == SeqsUpTo(S, n - 1)
         IN  R \cup {Append(q, x) : q \in R, x \in S}

\* frequency arrays: the element types, possibly mixed (dtype=object)
FrequencyArgs == SeqsUpTo(FreqTypes, MaxLen)

\* parameter values a fit can return, in tenths
FitValues == {20, 30}

----
\* The record of the latest call.

NoCall ==
    [op |-> "init", err |-> "", guess |-> None, cpe |-> FALSE, circ |-> None,
     freq |-> <<>>, nimp |-> 0, isarr |-> FALSE,
     driver |-> <<>>, eval |-> <<>>, ret |-> "none", retScores |-> <<>>]

Init ==
    /\ kind = "none"
    /\ parameters_ = Unset
    /\ initial_guess = Unset
    /\ circuit = Unset
    /\ algorithm = Unset
    /\ bounds = Unset
    /\ generations = Unset
    /\ popsize = Unset
    /\ max_elements = Unset
    /\ population = Unset
    /\ pc = "idle"
    /\ gen = 0
    /\ idx = 0
    /\ scores = Unset
    /\ last = NoCall
    /\ lastGood = None
    /\ genCalls = <<>>
    /\ pops = <<>>
    /\ fitLog = <<>>
    /\ collected = <<>>

----
\* Constructors.  A constructor that raises leaves no instance behind.

\* the assertion over the entries of initial_guess
GuessTypeError(g) ==
    IF g.st = "val" /\ \E k \in 1..Len(g.v) : ~IsNumber(g.v[k])
    THEN "AssertionError: value in initial_guess is not a number"
    ELSE ""

\* assert len(initial_guess) == circuit_length
GuessLengthError_off_by_one(g, c) ==
    IF Malformed(c) THEN "MalformedCircuitError"
    ELSE IF g.st # "val" THEN "TypeError: object of type 'NoneType' has no len()"
    ELSE IF Len(g.v) > calculateCircuitLength(c)
    THEN "AssertionError: Initial guess length needs to be equal to {circuit_length}"
    ELSE ""

GuessLengthError(g, c) ==
    IF Malformed(c) THEN "MalformedCircuitError"
    ELSE IF g.st # "val" THEN "TypeError: object of type 'NoneType' has no len()"
    ELSE IF Len(g.v) # calculateCircuitLength(c)
    THEN "AssertionError: Initial guess length needs to be equal to {circuit_length}"
    ELSE ""

RandlesTopology(CPE) == IF CPE THEN RandlesCPECircuit ELSE RandlesCircuit

RandlesInitError(g, CPE) ==
    IF GuessTypeError(g) # "" THEN GuessTypeError(g)
    ELSE GuessLengthError(g, RandlesTopology(CPE))

Randles(g, CPE, b) ==
    /\ kind = "none"
    /\ pc = "idle"
    /\ LET err == RandlesInitError(g, CPE)
       IN  /\ last' = [NoCall EXCEPT !.op = "Randles", !.err = err,
                                     !.guess = g, !.cpe = CPE]
           /\ IF err = ""
              THEN /\ kind' = "Randles"
                   /\ parameters_' = None
                   /\ initial_guess' = g
                   /\ algorithm' = Some(<<"leastsq">>)
                   /\ bounds' = b
                   /\ circuit' = Some(RandlesTopology(CPE))
                   /\ UNCHANGED << generations, popsize, max_elements, population >>
              ELSE UNCHANGED attrs
    /\ lastGood' = None
    /\ UNCHANGED << flexiLocals, flexiHistory >>

DefineCircuitInitError(g, c) ==
    IF g.st # "val" THEN ""
    ELSE IF GuessTypeError(g) # "" THEN GuessTypeError(g)
    ELSE IF c.st # "val" THEN "MalformedCircuitError"
    ELSE GuessLengthError(g, c.v)

DefineCircuit(g, c, b) ==
    /\ kind = "none"
    /\ pc = "idle"
    /\ LET err == DefineCircuitInitError(g, c)
       IN  /\ last' = [NoCall EXCEPT !.op = "DefineCircuit", !.err = err,
                                     !.guess = g, !.circ = c]
           /\ IF err = ""
              THEN /\ kind' = "DefineCircuit"
                   /\ parameters_' = None
                   /\ initial_guess' = g
                   /\ circuit' = c
                   /\ algorithm' = Some(<<"leastsq">>)
                   /\ bounds' = b
                   /\ UNCHANGED << generations, popsize, max_elements, population >>
              ELSE UNCHANGED attrs
    /\ lastGood' = None
    /\ UNCHANGED << flexiLocals, flexiHistory >>

\* FlexiCircuit.__init__ sets neither parameters_, circuit, algorithm nor bounds
FlexiCircuit(m, G, P, g) ==
    /\ kind = "none"
    /\ pc = "idle"
    /\ last' = [NoCall EXCEPT !.op = "FlexiCircuit", !.guess = g]
    /\ kind' = "FlexiCircuit"
    /\ initial_guess' = g
    /\ generations' = Some(<<G>>)
    /\ popsize' = Some(<<P>>)
    /\ max_elements' = Some(<<m>>)
    /\ lastGood' = None
    /\ UNCHANGED << parameters_, circuit, algorithm, bounds, population >>
    /\ UNCHANGED << flexiLocals, flexiHistory >>

----
\* BaseCircuit.fit and BaseCircuit.predict (Randles and DefineCircuit inherit both,
\* FlexiCircuit inherits predict).

\* the three assertions that open BaseCircuit.fit
FitInputError(freq, nimp, isarr) ==
    IF ~isarr THEN "AssertionError"
    ELSE IF Len(freq) # nimp THEN "AssertionError"
    ELSE IF Len(freq) = 0 THEN "IndexError: index 0 is out of bounds"
    ELSE IF freq[1] \notin NumberTypes
    THEN "AssertionError: frequencies does not contain a number"
    ELSE ""

\* self.initial_guess is not None
HasInitialGuess_always == TRUE

HasInitialGuess == initial_guess.st # "none"

\* circuit_fit: raises, or returns (parameters, covariance) for a guess of n entries
CircuitFitOutcomes(n) ==
    {[ok |-> FALSE, err |-> e, params |-> <<>>, covar |-> <<>>] :
        e \in {"FitDidNotConvergeError", "FitNumericalError"}}
    \cup
    {[ok |-> TRUE, err |-> "", params |-> [k \in 1..n |-> v], covar |-> [k \in 1..n |-> 0]] :
        v \in FitValues}

\* self.parameters_, _ = circuit_fit(...)
FitResultParams_second(out) == out.covar

FitResultParams(out) == out.params

\* an exception leaves BaseCircuit.fit: nothing of the instance is written
FitRaise_clears(call) ==
    /\ last' = call
    /\ parameters_' = None
    /\ UNCHANGED << kind, initial_guess, circuit, algorithm, bounds,
                    generations, popsize, max_elements, population, lastGood >>

FitRaise(call) ==
    /\ last' = call
    /\ UNCHANGED << attrs, lastGood >>

GuessLen == IF initial_guess.st = "val" THEN Len(initial_guess.v) ELSE 0

Fit(freq, nimp, isarr) ==
    /\ kind \in {"Randles", "DefineCircuit"}
    /\ pc = "idle"
    /\ \E out \in CircuitFitOutcomes(GuessLen) :
       LET call == [NoCall EXCEPT !.op = "fit", !.freq = freq,
                                  !.nimp = nimp, !.isarr = isarr]
           verr == FitInputError(freq, nimp, isarr)
           dcall == [call EXCEPT !.driver =
                        << [circuit |-> circuit, guess |-> initial_guess,
                            algorithm |-> algorithm, bounds |-> bounds] >>]
       IN  IF verr # "" THEN FitRaise([call EXCEPT !.err = verr])
           ELSE IF ~HasInitialGuess
           THEN FitRaise([call EXCEPT !.err = "ValueError: no initial guess supplied"])
           ELSE IF ~out.ok THEN FitRaise([dcall EXCEPT !.err = out.err])
           ELSE /\ parameters_' = Some(FitResultParams(out))
                /\ lastGood' = Some(out.params)
                /\ last' = [dcall EXCEPT !.ret = "self"]
                /\ UNCHANGED << kind, initial_guess, circuit, algorithm, bounds,
                                generations, popsize, max_elements, population >>
    /\ UNCHANGED << flexiLocals, flexiHistory >>

\* _is_fit: reading self.parameters_ fails when the attribute was never set
IsFitError == IF parameters_.st = "unset"
              THEN "AttributeError: object has no attribute 'parameters_'"
              ELSE ""

IsFit == parameters_.st = "val"

PredictError ==
    IF IsFitError # "" THEN IsFitError
    ELSE IF IsFit THEN ""
    ELSE "ValueError: The model hasn't been fit yet"

\* predict on n frequencies
Predict(n) ==
    /\ kind # "none"
    /\ pc = "idle"
    /\ LET call == [NoCall EXCEPT !.op = "predict", !.freq = [k \in 1..n |-> "float64"],
                                  !.isarr = TRUE]
       IN  IF PredictError # ""
           THEN last' = [call EXCEPT !.err = PredictError]
           ELSE last' = [call EXCEPT !.ret = "Z", !.eval =
                            << [circuit |-> circuit, params |-> parameters_, n |-> n] >>]
    /\ UNCHANGED << attrs, lastGood, flexiLocals, flexiHistory >>

----
\* FlexiCircuit.fit, one step per pass of its loops.  While a search runs
\* (pc # "idle") nothing else does: the code is single-threaded.

\* n = 5
NElements == 5

\* np.ones(circuit_length)/10
GuessDivisor == 10

\* candidate descriptions the population generator draws from (well-formed ones)
Candidates == {ResistorCircuit, SeriesRCCircuit}

\* make_population(popsize, n): popsize descriptions of at most n elements each
make_population(P, n) ==
    {q \in SeqsUpTo({c \in Candidates : ElementCount(c) <= n}, P) : Len(q) = P}

\* the element limit FlexiCircuit.fit hands to make_population
GeneratorLimit == NElements

\* self.initial_guess = list(np.ones(circuit_length)/10)
CandidateGuess(n) == [k \in 1..n |-> Num("float64", 10 \div GuessDivisor)]

\* leastsq(residuals, guess, ..., full_output=True): raises, or returns with the
\* final residual vector ff['fvec']
LeastsqOutcomes ==
    {[ok |-> FALSE, fvec |-> <<>>], [ok |-> TRUE, fvec |-> <<2, 0>>]}

RECURSIVE SumSquares(_)
SumSquares(v) == IF v = <<>> THEN 0 ELSE v[1] * v[1] + SumSquares(Tail(v))

\* np.square(ff['fvec']).mean()
MeanSquare(v) == SumSquares(v) \div Len(v)

FlexiCall == [NoCall EXCEPT !.op = "FlexiCircuit.fit"]

FlexiFitBegin ==
    /\ kind = "FlexiCircuit"
    /\ pc = "idle"
    /\ pc' = "loop"
    /\ gen' = 0
    /\ idx' = 0
    /\ scores' = Unset
    /\ genCalls' = <<>>
    /\ pops' = <<>>
    /\ fitLog' = <<>>
    /\ collected' = <<>>
    /\ last' = FlexiCall
    /\ UNCHANGED << attrs, lastGood >>

\* for i in range(self.generations): scores = []; self.population = make_population(...)
FlexiGeneration ==
    /\ pc = "loop"
    /\ gen < generations.v[1]
    /\ \E pop \in make_population(popsize.v[1], GeneratorLimit) :
          /\ population' = Some(pop)
          /\ pops' = Append(pops, pop)
          /\ IF Len(pop) = 0
             THEN gen' = gen + 1 /\ pc' = "loop"
             ELSE gen' = gen /\ pc' = "cand"
    /\ scores' = Some(<<>>)
    /\ genCalls' = Append(genCalls, [popsize |-> popsize.v[1], n |-> GeneratorLimit])
    /\ idx' = 0
    /\ UNCHANGED << kind, parameters_, initial_guess, circuit, algorithm, bounds,
                    generations, popsize, max_elements, last, lastGood,
                    fitLog, collected >>

\* an exception leaves FlexiCircuit.fit
FlexiRaise(err) ==
    /\ last' = [FlexiCall EXCEPT !.err = err]
    /\ pc' = "idle"
    /\ gen' = 0
    /\ idx' = 0
    /\ scores' = Unset

\* for pop in self.population: one candidate
FlexiCandidate(out) ==
    /\ pc = "cand"
    /\ LET c == population.v[idx + 1]
           guess == CandidateGuess(calculateCircuitLength(c))
       IN  /\ circuit' = Some(c)
           /\ IF Malformed(c)
              THEN /\ FlexiRaise("MalformedCircuitError")
                   /\ UNCHANGED << initial_guess, fitLog, collected >>
              ELSE /\ initial_guess' = Some(guess)
                   /\ fitLog' = Append(fitLog, [gen |-> gen + 1, cand |-> c, guess |-> guess])
                   /\ IF ~out.ok
                      THEN /\ FlexiRaise("LeastsqError")
                           /\ UNCHANGED collected
                      ELSE /\ scores' = Some(Append(scores.v, << MeanSquare(out.fvec), c >>))
                           /\ collected' = Append(collected, << MeanSquare(out.fvec), c >>)
                           /\ idx' = IF idx + 1 = Len(population.v) THEN 0 ELSE idx + 1
                           /\ gen' = IF idx + 1 = Len(population.v) THEN gen + 1 ELSE gen
                           /\ pc' = IF idx + 1 = Len(population.v) THEN "loop" ELSE "cand"
                           /\ UNCHANGED last
    /\ UNCHANGED << kind, parameters_, algorithm, bounds, generations, popsize,
                    max_elements, population, lastGood, genCalls, pops >>

\* print(scores); return scores
FlexiReturn ==
    /\ pc = "loop"
    /\ gen >= generations.v[1]
    /\ IF scores.st = "unset"
       THEN last' = [FlexiCall EXCEPT !.err = "UnboundLocalError: scores"]
       ELSE last' = [FlexiCall EXCEPT !.ret = "scores", !.retScores = scores.v]
    /\ pc' = "idle"
    /\ gen' = 0
    /\ idx' = 0
    /\ scores' = Unset
    /\ UNCHANGED << attrs, lastGood, flexiHistory >>

----
Next ==
    \/ \E g \in GuessArgs, CPE \in BOOLEAN, b \in BoundsArgs : Randles(g, CPE, b)
    \/ \E g \in GuessArgs, c \in CircuitArgs, b \in BoundsArgs : DefineCircuit(g, c, b)
    \/ \E m \in 1..MaxElems, G \in 0..MaxGen, P \in 0..MaxPop,
          g \in {None, Some(MkGuess(2, 0))} : FlexiCircuit(m, G, P, g)
    \/ \E freq \in FrequencyArgs, nimp \in 0..MaxLen, isarr \in BOOLEAN :
          Fit(freq, nimp, isarr)
    \/ \E n \in 0..MaxLen : Predict(n)
    \/ FlexiFitBegin
    \/ FlexiGeneration
    \/ \E out \in LeastsqOutcomes : FlexiCandidate(out)
    \/ FlexiReturn

Spec == Init /\ [][Next]_vars

----
\* Properties.

NotFittedError == "ValueError: The model hasn't been fit yet"

NoGuessError == "ValueError: no initial guess supplied"

LengthError == "AssertionError: Initial guess length needs to be equal to {circuit_length}"

AllNumbers(g) == \A k \in 1..Len(g) : g[k].t \in {"float", "int", "int32", "float64"}

\* no fit has succeeded on the instance: circuit_fit never returned, and no
\* topology search got as far as its first generation
NeverFitted == lastGood.st = "none" /\ population.st = "unset"

\* C1: on an instance (Randles, DefineCircuit or FlexiCircuit) on which no fit has
\* succeeded, predict fails with the model-not-fitted ValueError, does not call
\* computeCircuit and returns nothing.
C1_PredictBeforeFitRaisesNotFitted ==
    (last.op = "predict" /\ NeverFitted) =>
        /\ last.err = NotFittedError
        /\ last.eval = <<>>
        /\ last.ret = "none"

\* C2 as stated: a Randles guess (of numbers) is rejected with the length error
\* exactly when its length differs from 4 (CPE) or 5 (no CPE).
C2_ExpectedLengthFourAndFive ==
    (last.op = "Randles" /\ last.guess.st = "val" /\ AllNumbers(last.guess.v)) =>
        LET expected == IF last.cpe THEN 4 ELSE 5
        IN  IF Len(last.guess.v) # expected
            THEN last.err = LengthError /\ kind = "none"
            ELSE last.err = "" /\ kind = "Randles"

\* C2 amended: a Randles guess of numbers is rejected with the length error
\* exactly when its length differs from the parameter count of the topology,
\* which is 6 with CPE and 5 without; a guess of that length is accepted.
C2_ExpectedLengthSixAndFive ==
    (last.op = "Randles" /\ last.guess.st = "val" /\ AllNumbers(last.guess.v)) =>
        LET expected == IF last.cpe THEN 6 ELSE 5
        IN  IF Len(last.guess.v) # expected
            THEN last.err = LengthError /\ kind = "none"
            ELSE /\ last.err = "" /\ kind = "Randles"
                 /\ initial_guess = last.guess
                 /\ Len(initial_guess.v) = calculateCircuitLength(circuit.v)

\* a CPE Randles was refused a guess of 4 numbers
C2_Witness ==
    /\ last.op = "Randles" /\ last.cpe
    /\ last.guess.st = "val" /\ AllNumbers(last.guess.v) /\ Len(last.guess.v) = 4
    /\ last.err = LengthError

FlexiFitReturned == pc = "idle" /\ last.op = "FlexiCircuit.fit" /\ last.err = ""

\* C3: a search over two or more generations of non-empty populations that returns
\* hands back one batch per generation, and every pair collected in any
\* generation is in the result.
C3_ReturnsEveryGeneration ==
    (FlexiFitReturned /\ generations.v[1] >= 2 /\ popsize.v[1] >= 1) =>
        /\ Len(last.retScores) = generations.v[1]
        /\ \A k \in 1..Len(collected) :
              \E j \in 1..Len(last.retScores) : last.retScores[j] = collected[k]

\* C4: the failure of one candidate (its parameter count or its least-squares
\* fit raises) never ends the search.
C4_CandidateFailureDoesNotAbort ==
    ~(pc = "idle" /\ last.op = "FlexiCircuit.fit"
        /\ last.err \in {"MalformedCircuitError", "LeastsqError"})

\* C5: on a Randles or DefineCircuit, parameters_ is None until a fit succeeds and
\* from then on is the vector the fit driver returned last; a fit that succeeds
\* returns the instance.
C5_ParametersAreLastFit ==
    kind \in {"Randles", "DefineCircuit"} =>
        /\ parameters_ = lastGood
        /\ parameters_.st \in {"none", "val"}
        /\ (last.op = "fit" /\ last.err = "") =>
              /\ last.ret = "self"
              /\ Len(last.driver) = 1
              /\ parameters_.st = "val"
        /\ (last.op = "fit" /\ last.err # "") => last.ret = "none"

\* a fit has succeeded and stored the returned vector
C5_Witness ==
    /\ kind = "Randles" /\ last.op = "fit" /\ last.err = ""
    /\ parameters_ = Some(<<30, 30, 30, 30, 30>>)

\* C6: fit on a model without initial guess never reaches the fit driver and
\* substitutes no guess; with inputs that pass validation it raises the
\* no-initial-guess ValueError.
C6_NoGuessNoFit ==
    (kind \in {"Randles", "DefineCircuit"} /\ last.op = "fit"
        /\ initial_guess.st = "none") =>
        /\ last.driver = <<>>
        /\ last.err # ""
        /\ parameters_.st = "none"
        /\ (/\ last.isarr
            /\ Len(last.freq) = last.nimp
            /\ Len(last.freq) > 0
            /\ last.freq[1] \in {"float", "int", "int32", "float64"})
           => last.err = NoGuessError

\* a fit with valid inputs was refused for want of a guess
C6_Witness ==
    /\ kind = "DefineCircuit" /\ circuit.st = "val" /\ initial_guess.st = "none"
    /\ last.op = "fit" /\ last.err = NoGuessError /\ Len(last.freq) = 2

\* C7: the fit driver is invoked only with non-empty frequencies and impedance of
\* equal length in which every frequency is a real number.
C7_DriverOnlyOnValidInput ==
    (last.op = "fit" /\ last.driver # <<>>) =>
        /\ Len(last.freq) > 0
        /\ Len(last.freq) = last.nimp
        /\ \A k \in 1..Len(last.freq) : IsRealType(last.freq[k])

\* C8: every make_population call is given the popsize and the max_elements of
\* the FlexiCircuit.
C8_GeneratorGetsMaxElements ==
    kind = "FlexiCircuit" =>
        \A k \in 1..Len(genCalls) :
            /\ genCalls[k].popsize = popsize.v[1]
            /\ genCalls[k].n = max_elements.v[1]

\* the leastsq calls of generation g, in the order they were made
FitsOf(g) == SelectSeq(fitLog, LAMBDA e : e.gen = g)

\* generations whose population has been generated / has been worked through
GenerationsStarted == IF pc = "cand" THEN gen + 1 ELSE gen

\* What holds of the loops at every step: the generator has been called once per
\* generation begun; the candidates of each population are fitted once each and in
\* population order, up to the candidate in hand; every fit starts from a guess
\* of calculateCircuitLength(candidate) entries that are all 0.1.
FlexiLoopInvariant ==
    kind = "FlexiCircuit" =>
        /\ Len(genCalls) = Len(pops)
        /\ pc # "idle" => Len(pops) = GenerationsStarted
        /\ FlexiFitReturned => Len(pops) = generations.v[1]
        /\ \A k \in 1..Len(fitLog) :
              /\ fitLog[k].gen \in 1..Len(pops)
              /\ k > 1 => fitLog[k-1].gen <= fitLog[k].gen
              /\ Len(fitLog[k].guess) = calculateCircuitLength(fitLog[k].cand)
              /\ \A n \in 1..Len(fitLog[k].guess) :
                    fitLog[k].guess[n] = [t |-> "float64", x |-> 1]
        /\ \A g \in 1..Len(pops) :
              /\ Len(FitsOf(g)) <= Len(pops[g])
              /\ \A k \in 1..Len(FitsOf(g)) : FitsOf(g)[k].cand = pops[g][k]
              /\ (pc # "idle" /\ g <= gen) => Len(FitsOf(g)) = Len(pops[g])
              /\ (pc = "cand" /\ g = gen + 1) => Len(FitsOf(g)) = idx
              /\ FlexiFitReturned => Len(FitsOf(g)) = Len(pops[g])

\* C9: once a topology search has ended, the generator has been called once per
\* generation, every candidate of every population has been fitted exactly once,
\* in population order, each from a guess of calculateCircuitLength(candidate)
\* entries that are all 0.1.
C9_EveryCandidateFittedOnce ==
    (kind = "FlexiCircuit" /\ pc = "idle" /\ last.op = "FlexiCircuit.fit") =>
        /\ Len(genCalls) = generations.v[1]
        /\ Len(pops) = generations.v[1]
        /\ \A g \in 1..Len(pops) :
              /\ Len(FitsOf(g)) = Len(pops[g])
              /\ \A k \in 1..Len(FitsOf(g)) :
                    /\ FitsOf(g)[k].cand = pops[g][k]
                    /\ Len(FitsOf(g)[k].guess) = calculateCircuitLength(pops[g][k])
                    /\ \A n \in 1..Len(FitsOf(g)[k].guess) :
                          FitsOf(g)[k].guess[n] = [t |-> "float64", x |-> 1]

\* C10: a BaseCircuit.fit call that fails on a Randles or DefineCircuit leaves
\* parameters_, initial_guess, circuit and bounds as they were, and predict
\* evaluates the circuit with the parameters of the last successful fit.
C10_FailedFitChangesNothing ==
    /\ [][(kind \in {"Randles", "DefineCircuit"} /\ last'.op = "fit" /\ last'.err # "")
            => /\ parameters_' = parameters_
               /\ initial_guess' = initial_guess
               /\ circuit' = circuit
               /\ bounds' = bounds
               /\ kind' = kind]_vars
    /\ []((kind \in {"Randles", "DefineCircuit"} /\ last.op = "predict"
              /\ lastGood.st = "val")
            => /\ last.err = ""
               /\ last.ret = "Z"
               /\ Len(last.eval) = 1
               /\ last.eval[1].params = lastGood
               /\ last.eval[1].circuit = circuit)

\* a fit has failed on a model that was already fitted, which is still fitted
C10_Witness ==
    /\ kind = "DefineCircuit" /\ last.op = "fit"
    /\ last.err = "FitDidNotConvergeError"
    /\ parameters_.st = "val"

====
